---- MODULE Spec2Model ----
(***************************************************************************)
(* Model of src/main.rs: a GTK4 application that opens one window with a   *)
(* "Hello, world!" label and installs a light or a dark stylesheet         *)
(* depending on two desktop settings (gtk-theme-name and                   *)
(* gtk-application-prefer-dark-theme).                                     *)
(*                                                                         *)
(* Everything runs on the toolkit's main-loop thread.  The model follows   *)
(* on_activate line by line (pc), then the event loop: the desktop changes *)
(* a setting, the toolkit emits the notify signal to the handlers that     *)
(* were connected, and each handler is one run of load_css.  A failed      *)
(* expect() ends the process (pc = "aborted").                             *)
(*                                                                         *)
(* Environment assumptions: the toolkit emits "activate" once per run, and *)
(* add_provider_for_display appends a provider to the display's cascade    *)
(* without removing any other (later providers of equal priority take      *)
(* precedence).  Theme names are ASCII.                                    *)
(***************************************************************************)
EXTENDS Integers, Sequences, FiniteSets, TLC

\* Number of setting changes the desktop makes in one run.
MaxChanges == 3

\* ------------------------------------------------------------------------
\* Program constants
\* ------------------------------------------------------------------------
width == 275
height == 50
application_id == "com.example.gtk4-dark-mode"
label_text == "Hello, world!"
dark_css == "dark.css"
light_css == "light.css"
STYLE_PROVIDER_PRIORITY_APPLICATION == "application"
NoDisplayMessage == "Could not get default display."
NoThemeNameMessage == "Could not get theme name."

\* ------------------------------------------------------------------------
\* Strings are sequences of one-character strings.
\* ------------------------------------------------------------------------
UpperCase ==
    << "A", "B", "C", "D", "E", "F", "G", "H", "I", "J", "K", "L", "M",
       "N", "O", "P", "Q", "R", "S", "T", "U", "V", "W", "X", "Y", "Z" >>

LowerCase ==
    << "a", "b", "c", "d", "e", "f", "g", "h", "i", "j", "k", "l", "m",
       "n", "o", "p", "q", "r", "s", "t", "u", "v", "w", "x", "y", "z" >>

ToLowerChar(c) ==
    IF \E i \in DOMAIN UpperCase : UpperCase[i] = c
    THEN LowerCase[CHOOSE i \in DOMAIN UpperCase : UpperCase[i] = c]
    ELSE c

\* str::to_lowercase
to_lowercase(s) == [i \in DOMAIN s |-> ToLowerChar(s[i])]

\* str::starts_with at offset `from` (0-based)
RECURSIVE MatchesAt(_, _, _, _)
MatchesAt(s, pat, from, k) ==
    IF k > Len(pat) THEN TRUE
    ELSE IF from + k > Len(s) THEN FALSE
    ELSE IF s[from + k] # pat[k] THEN FALSE
    ELSE MatchesAt(s, pat, from, k + 1)

\* str::contains: scan the start offsets left to right
RECURSIVE ContainsFrom(_, _, _)
ContainsFrom(s, pat, from) ==
    IF from + Len(pat) > Len(s) THEN FALSE
    ELSE IF MatchesAt(s, pat, from, 1) THEN TRUE
    ELSE ContainsFrom(s, pat, from + 1)

contains(s, pat) == ContainsFrom(s, pat, 0)

DarkPattern == << "d", "a", "r", "k" >>

\* ------------------------------------------------------------------------
\* The values the desktop can give gtk-theme-name.
\* ------------------------------------------------------------------------
Adwaita == << "A", "d", "w", "a", "i", "t", "a" >>
AdwaitaDark == << "A", "d", "w", "a", "i", "t", "a", "-", "d", "a", "r", "k" >>
HighContrast == << "H", "i", "g", "h", "C", "o", "n", "t", "r", "a", "s", "t" >>
DarkCustom == << "D", "A", "R", "K", "-", "c", "u", "s", "t", "o", "m" >>
Dar == << "D", "a", "r" >>
Drak == << "d", "r", "a", "k", "-", "d", "a", "r" >>

ThemeNames == { Adwaita, AdwaitaDark, HighContrast, DarkCustom, Dar, Drak }

\* Option<GString>, the result of gtk_theme_name(): a sequence of at most
\* one element.
None == << >>
Some(x) == << x >>
unwrap(o) == o[1]

ThemeNameValues == { Some(n) : n \in ThemeNames } \cup { None }

VARIABLES
    pc,               \* position of the main thread
    settingsExists,   \* gtk::Settings::default() is Some
    displayAvailable, \* gdk::Display::default() is Some
    themeName,        \* settings.gtk_theme_name()
    preferDark,       \* settings.is_gtk_application_prefer_dark_theme()
    subscriptions,    \* notify handlers connected to the settings object
    dispatch,         \* handlers still to run in the current signal emission
    providers,        \* style providers added to the default display
    windows,          \* windows created by the program
    diagnostic,       \* panic message of the process, if any
    loadLog,          \* one record per invocation of load_css: who called
                      \* it, the settings it found and how it ended
    changes           \* the settings the desktop has changed, in order

vars == << pc, settingsExists, displayAvailable, themeName, preferDark,
           subscriptions, dispatch, providers, windows, diagnostic,
           loadLog, changes >>

\* ------------------------------------------------------------------------
\* load_css
\* ------------------------------------------------------------------------

\* load_css with && in place of ||
SelectStylesheetAnd(theme_name, prefer_dark) ==
    IF contains(to_lowercase(theme_name), DarkPattern) /\ prefer_dark
    THEN dark_css
    ELSE light_css

\* load_css that keeps the dark stylesheet once it has been installed
SelectStylesheetSticky(theme_name, prefer_dark) ==
    IF \/ contains(to_lowercase(theme_name), DarkPattern)
       \/ prefer_dark
       \/ (providers # << >> /\ providers[Len(providers)].data = dark_css)
    THEN dark_css
    ELSE light_css

\* The condition and the two branches of load_css.
SelectStylesheet(theme_name, prefer_dark) ==
    IF contains(to_lowercase(theme_name), DarkPattern) \/ prefer_dark
    THEN dark_css
    ELSE light_css

\* load_css that installs a provider only when none is installed yet
add_provider_once(installed, provider, priority) ==
    IF installed # << >>
    THEN installed
    ELSE Append(installed, [data |-> provider, priority |-> priority])

\* gtk::StyleContext::add_provider_for_display
add_provider_for_display(installed, provider, priority) ==
    Append(installed, [data |-> provider, priority |-> priority])

\* load_css without the expect() on the default display
LoadCssOutcomeNoDisplayCheck ==
    IF themeName = None THEN "no_theme_name" ELSE "ok"

\* The result of one run of load_css in the current state.
LoadCssOutcome ==
    IF ~displayAvailable THEN "no_display"
    ELSE IF themeName = None THEN "no_theme_name"
    ELSE "ok"

\* load_css that returns early, without a panic, when there is no theme name
load_css_skip_missing_theme(source, next) ==
    /\ loadLog' = Append(loadLog,
            [ source |-> source,
              theme_name |-> themeName,
              prefer_dark |-> preferDark,
              outcome |-> LoadCssOutcome ])
    /\ IF LoadCssOutcome = "no_display"
       THEN /\ diagnostic' = NoDisplayMessage
            /\ pc' = "aborted"
            /\ UNCHANGED providers
       ELSE IF LoadCssOutcome = "no_theme_name"
       THEN /\ pc' = next
            /\ UNCHANGED << providers, diagnostic >>
       ELSE /\ providers' = Append(providers,
                    [ data |-> IF \/ contains(to_lowercase(unwrap(themeName)),
                                               DarkPattern)
                                  \/ preferDark
                               THEN dark_css ELSE light_css,
                      priority |-> STYLE_PROVIDER_PRIORITY_APPLICATION ])
            /\ pc' = next
            /\ UNCHANGED diagnostic

\* One run of load_css, called from `source`; control goes to `next` when
\* it returns.
load_css(source, next) ==
    /\ loadLog' = Append(loadLog,
            [ source |-> source,
              theme_name |-> themeName,
              prefer_dark |-> preferDark,
              outcome |-> LoadCssOutcome ])
    /\ IF LoadCssOutcome = "no_display"
       THEN /\ diagnostic' = NoDisplayMessage
            /\ pc' = "aborted"
            /\ UNCHANGED providers
       ELSE IF LoadCssOutcome = "no_theme_name"
       THEN /\ diagnostic' = NoThemeNameMessage
            /\ pc' = "aborted"
            /\ UNCHANGED providers
       ELSE /\ providers' = add_provider_for_display(
                                providers,
                                SelectStylesheet(unwrap(themeName), preferDark),
                                STYLE_PROVIDER_PRIORITY_APPLICATION)
            /\ pc' = next
            /\ UNCHANGED diagnostic

\* ------------------------------------------------------------------------
\* main and on_activate
\* ------------------------------------------------------------------------

Init ==
    /\ pc = "main"
    /\ settingsExists \in BOOLEAN
    /\ displayAvailable \in BOOLEAN
    /\ themeName \in ThemeNameValues
    /\ preferDark \in BOOLEAN
    /\ subscriptions = << >>
    /\ dispatch = << >>
    /\ providers = << >>
    /\ windows = << >>
    /\ diagnostic = "none"
    /\ loadLog = << >>
    /\ changes = << >>

\* app.run(): the toolkit emits "activate"
Run ==
    /\ pc = "main"
    /\ pc' = "on_activate"
    /\ UNCHANGED << settingsExists, displayAvailable, themeName, preferDark,
                    subscriptions, dispatch, providers, windows, diagnostic,
                    loadLog, changes >>

\* on_activate that takes the settings object for granted
GetSettingsUnchecked ==
    /\ pc = "on_activate"
    /\ pc' = "connect_prefer_dark"
    /\ UNCHANGED << settingsExists, displayAvailable, themeName, preferDark,
                    subscriptions, dispatch, providers, windows, diagnostic,
                    loadLog, changes >>

\* if let Some(settings) = gtk::Settings::default()
GetSettings ==
    /\ pc = "on_activate"
    /\ pc' = IF settingsExists THEN "connect_prefer_dark" ELSE "build_window"
    /\ UNCHANGED << settingsExists, displayAvailable, themeName, preferDark,
                    subscriptions, dispatch, providers, windows, diagnostic,
                    loadLog, changes >>

\* settings.connect_gtk_application_prefer_dark_theme_notify(load_css)
ConnectPreferDarkNotify ==
    /\ pc = "connect_prefer_dark"
    /\ subscriptions' = Append(subscriptions, "gtk-application-prefer-dark-theme")
    /\ pc' = "connect_theme_name"
    /\ UNCHANGED << settingsExists, displayAvailable, themeName, preferDark,
                    dispatch, providers, windows, diagnostic, loadLog,
                    changes >>

\* on_activate that connects the prefer-dark signal twice
ConnectPreferDarkNotifyAgain ==
    /\ pc = "connect_theme_name"
    /\ subscriptions' = Append(subscriptions, "gtk-application-prefer-dark-theme")
    /\ pc' = "eager_load_css"
    /\ UNCHANGED << settingsExists, displayAvailable, themeName, preferDark,
                    dispatch, providers, windows, diagnostic, loadLog,
                    changes >>

\* settings.connect_gtk_theme_name_notify(load_css)
ConnectThemeNameNotify ==
    /\ pc = "connect_theme_name"
    /\ subscriptions' = Append(subscriptions, "gtk-theme-name")
    /\ pc' = "eager_load_css"
    /\ UNCHANGED << settingsExists, displayAvailable, themeName, preferDark,
                    dispatch, providers, windows, diagnostic, loadLog,
                    changes >>

\* on_activate that builds the window before the first load_css
EagerLoadCssAfterWindow ==
    \/ /\ pc = "eager_load_css"
       /\ windows = << >>
       /\ windows' = Append(windows,
              [ application |-> application_id,
                child |-> << [ label |-> label_text ] >>,
                default_width |-> width,
                default_height |-> height,
                presented |-> TRUE ])
       /\ UNCHANGED << pc, settingsExists, displayAvailable, themeName,
                       preferDark, subscriptions, dispatch, providers,
                       diagnostic, loadLog, changes >>
    \/ /\ pc = "eager_load_css"
       /\ windows # << >>
       /\ load_css("on_activate", "running")
       /\ UNCHANGED << settingsExists, displayAvailable, themeName, preferDark,
                       subscriptions, dispatch, windows, changes >>

\* load_css(&settings)
EagerLoadCss ==
    /\ pc = "eager_load_css"
    /\ load_css("on_activate", "build_window")
    /\ UNCHANGED << settingsExists, displayAvailable, themeName, preferDark,
                    subscriptions, dispatch, windows, changes >>

\* on_activate with the arguments of set_default_size swapped
NewWindowSwapped ==
    [ application |-> application_id,
      child |-> << [ label |-> label_text ] >>,
      default_width |-> height,
      default_height |-> width,
      presented |-> TRUE ]

\* The window built and presented by on_activate.
NewWindow ==
    [ application |-> application_id,
      child |-> << [ label |-> label_text ] >>,
      default_width |-> width,
      default_height |-> height,
      presented |-> TRUE ]

\* ApplicationWindow::new ... window.present(); on_activate returns
BuildWindow ==
    /\ pc = "build_window"
    /\ windows' = Append(windows, NewWindow)
    /\ pc' = "running"
    /\ UNCHANGED << settingsExists, displayAvailable, themeName, preferDark,
                    subscriptions, dispatch, providers, diagnostic, loadLog,
                    changes >>

\* ------------------------------------------------------------------------
\* The event loop
\* ------------------------------------------------------------------------

\* The handlers connected to `signal`, in connection order.
HandlersOf(signal) == SelectSeq(subscriptions, LAMBDA s : s = signal)

\* The desktop changes gtk-theme-name; notify::gtk-theme-name is emitted.
ThemeNameChanged ==
    /\ pc = "running"
    /\ dispatch = << >>
    /\ Len(changes) < MaxChanges
    /\ \E v \in ThemeNameValues :
          /\ v # themeName
          /\ themeName' = v
    /\ dispatch' = HandlersOf("gtk-theme-name")
    /\ changes' = Append(changes, "gtk-theme-name")
    /\ UNCHANGED << pc, settingsExists, displayAvailable, preferDark,
                    subscriptions, providers, windows, diagnostic, loadLog >>

\* The desktop changes gtk-application-prefer-dark-theme.
PreferDarkChanged ==
    /\ pc = "running"
    /\ dispatch = << >>
    /\ Len(changes) < MaxChanges
    /\ preferDark' = ~preferDark
    /\ dispatch' = HandlersOf("gtk-application-prefer-dark-theme")
    /\ changes' = Append(changes, "gtk-application-prefer-dark-theme")
    /\ UNCHANGED << pc, settingsExists, displayAvailable, themeName,
                    subscriptions, providers, windows, diagnostic, loadLog >>

\* The default display goes away or comes back.
DisplayChanged ==
    /\ pc = "running"
    /\ dispatch = << >>
    /\ displayAvailable' = ~displayAvailable
    /\ UNCHANGED << pc, settingsExists, themeName, preferDark, subscriptions,
                    dispatch, providers, windows, diagnostic, loadLog,
                    changes >>

\* The toolkit calls the next handler of the emission: load_css(settings).
NotifyHandler ==
    /\ pc = "running"
    /\ dispatch # << >>
    /\ load_css(Head(dispatch), "running")
    /\ dispatch' = Tail(dispatch)
    /\ UNCHANGED << settingsExists, displayAvailable, themeName, preferDark,
                    subscriptions, windows, changes >>

Next ==
    \/ Run
    \/ GetSettings
    \/ ConnectPreferDarkNotify
    \/ ConnectThemeNameNotify
    \/ EagerLoadCss
    \/ BuildWindow
    \/ ThemeNameChanged
    \/ PreferDarkChanged
    \/ DisplayChanged
    \/ NotifyHandler

Spec == Init /\ [][Next]_vars

\* ------------------------------------------------------------------------
\* Properties
\* ------------------------------------------------------------------------

Last(q) == q[Len(q)]

\* The theme name has the letters d, a, r, k, in either case, side by side.
NameHasDark(n) ==
    \E i \in 1 .. (Len(n) - 3) :
        /\ n[i] \in { "d", "D" }
        /\ n[i + 1] \in { "a", "A" }
        /\ n[i + 2] \in { "r", "R" }
        /\ n[i + 3] \in { "k", "K" }

\* The stylesheet the decision rule gives for the settings that the
\* invocation recorded in `e` found.
RuleFor(e) ==
    IF e.prefer_dark \/ NameHasDark(unwrap(e.theme_name))
    THEN dark_css
    ELSE light_css

\* A failed expect() ends the process, so every invocation before the last
\* one returned, and the i-th provider was installed by the i-th invocation.
Completed == { i \in DOMAIN loadLog : loadLog[i].outcome = "ok" }

\* The provider that takes precedence on the display: all are installed at
\* application priority, and among equals the one added last wins.
InEffect == Last(providers).data

\* on_activate has returned.
Activated == pc = "running" \/ (pc = "aborted" /\ changes # << >>)

\* C1: every invocation of load_css that returns has loaded exactly one of
\* the two stylesheets into the provider it installed: the dark one if
\* prefer-dark was true or the theme name, in lower case, contains "dark",
\* and the light one in every other case.
C1_DecisionRule ==
    /\ Cardinality(Completed) = Len(providers)
    /\ \A i \in Completed :
          /\ providers[i].data \in { dark_css, light_css }
          /\ providers[i].data = dark_css <=>
                 (loadLog[i].prefer_dark \/ NameHasDark(unwrap(loadLog[i].theme_name)))
          /\ providers[i].data = light_css <=>
                 ~(loadLog[i].prefer_dark \/ NameHasDark(unwrap(loadLog[i].theme_name)))

\* One run has selected dark on the name alone (upper case), dark on the
\* flag alone, and light.
C1_Witness ==
    /\ \E i \in Completed :
          /\ loadLog[i].theme_name = Some(DarkCustom)
          /\ ~loadLog[i].prefer_dark
          /\ providers[i].data = dark_css
    /\ \E i \in Completed :
          /\ loadLog[i].theme_name = Some(HighContrast)
          /\ loadLog[i].prefer_dark
          /\ providers[i].data = dark_css
    /\ \E i \in Completed :
          /\ loadLog[i].theme_name = Some(Drak)
          /\ providers[i].data = light_css

\* C2: once a stylesheet has been installed, exactly one provider of the
\* program is on the default display, however many notifications have been
\* handled.
C2_SingleProvider ==
    providers # << >> => Len(providers) = 1

C4_Invocations ==
    LET callers == [i \in DOMAIN loadLog |-> loadLog[i].source]
        handled == SubSeq(changes, 1, Len(changes) - Len(dispatch))
    IN  /\ pc \in { "main", "on_activate", "connect_prefer_dark",
                    "connect_theme_name", "eager_load_css" } => callers = << >>
        /\ (settingsExists /\ pc \in { "build_window", "running" }) =>
              /\ Len(dispatch) <= 1
              /\ callers = << "on_activate" >> \o handled
        /\ (settingsExists /\ pc = "aborted") =>
              callers = << "on_activate" >> \o changes
        /\ \A i \in DOMAIN dispatch : dispatch[i] = Last(changes)

\* Both settings have changed and every notification has been handled.
C4_Witness ==
    /\ settingsExists
    /\ pc = "running"
    /\ dispatch = << >>
    /\ Len(loadLog) >= 3
    /\ \E i, j \in DOMAIN changes :
          /\ changes[i] = "gtk-theme-name"
          /\ changes[j] = "gtk-application-prefer-dark-theme"

\* C5: two invocations of load_css that found the same theme name and the
\* same prefer-dark flag selected the same stylesheet, whichever
\* subscription called them and whatever was selected in between.
C5_SameSettingsSameStylesheet ==
    \A i, j \in Completed :
        (/\ loadLog[i].theme_name = loadLog[j].theme_name
         /\ loadLog[i].prefer_dark = loadLog[j].prefer_dark)
        => providers[i].data = providers[j].data

\* The same settings were found by handlers of the two subscriptions, with
\* the other stylesheet selected in between.
C5_Witness ==
    \E i, j, k \in Completed :
        /\ i < k /\ k < j
        /\ loadLog[i].theme_name = loadLog[j].theme_name
        /\ loadLog[i].prefer_dark = loadLog[j].prefer_dark
        /\ loadLog[i].source = "gtk-application-prefer-dark-theme"
        /\ loadLog[j].source = "gtk-theme-name"
        /\ providers[k].data # providers[i].data
        /\ providers[j].data = providers[i].data

\* A step that is an invocation of load_css.
LoadCssStep == Len(loadLog') = Len(loadLog) + 1

\* C6: an invocation of load_css that finds no default display, at startup
\* or on a notification, ends the process with the display diagnostic and
\* installs no provider; nothing runs afterwards.
C6_NoDisplayAborts ==
    /\ [][(LoadCssStep /\ ~displayAvailable) =>
             /\ pc' = "aborted"
             /\ diagnostic' = NoDisplayMessage
             /\ providers' = providers]_vars
    /\ [][pc # "aborted"]_vars

\* A notification handler found no display after a stylesheet was installed.
C6_Witness ==
    /\ pc = "aborted"
    /\ diagnostic = NoDisplayMessage
    /\ providers # << >>
    /\ Last(loadLog).outcome = "no_display"
    /\ Last(loadLog).source # "on_activate"

\* C7: an invocation of load_css that finds the display but no theme name
\* ends the process with the theme-name diagnostic and installs no
\* provider, also when prefer-dark is true.
C7_NoThemeNameAborts ==
    [][(LoadCssStep /\ displayAvailable /\ themeName = None) =>
          /\ pc' = "aborted"
          /\ diagnostic' = NoThemeNameMessage
          /\ providers' = providers]_vars

\* The process ended on a missing theme name while prefer-dark was true.
C7_Witness ==
    /\ pc = "aborted"
    /\ diagnostic = NoThemeNameMessage
    /\ loadLog # << >>
    /\ Last(loadLog).outcome = "no_theme_name"
    /\ Last(loadLog).prefer_dark
    /\ Len(providers) = Len(loadLog) - 1

\* C8: once on_activate has returned there is exactly one window, presented,
\* of default size 275 x 50, whose only child is a label "Hello, world!",
\* and notifications leave it as it is.
C8_OneWindow ==
    Activated =>
        /\ Len(windows) = 1
        /\ windows[1].child = << [ label |-> "Hello, world!" ] >>
        /\ windows[1].default_width = 275
        /\ windows[1].default_height = 50
        /\ windows[1].presented

\* Notifications have been handled after the window was presented.
C8_Witness ==
    /\ pc = "running"
    /\ dispatch = << >>
    /\ Len(providers) >= 3
    /\ Len(windows) = 1

\* C9: without a settings object no handler is connected, load_css is never
\* invoked, no provider is installed and the process does not abort, and
\* the window is still built and presented.
C9_NoSettings ==
    ~settingsExists =>
        /\ subscriptions = << >>
        /\ dispatch = << >>
        /\ loadLog = << >>
        /\ providers = << >>
        /\ pc # "aborted"
        /\ diagnostic = "none"
        /\ (pc = "running" =>
               /\ Len(windows) = 1
               /\ windows[1].child = << [ label |-> label_text ] >>
               /\ windows[1].presented)

\* Both settings changed with no settings object, in a state where load_css
\* would have aborted.
C9_Witness ==
    /\ ~settingsExists
    /\ pc = "running"
    /\ Len(windows) = 1
    /\ ~displayAvailable
    /\ themeName = None
    /\ \E i, j \in DOMAIN changes :
          /\ changes[i] = "gtk-theme-name"
          /\ changes[j] = "gtk-application-prefer-dark-theme"

\* C10: in on_activate both handlers are connected before the first
\* load_css, and the first load_css returns before the window is built: if
\* it aborts there is never a window, and a presented window always has the
\* first stylesheet installed.
C10_ActivationOrder ==
    /\ loadLog # << >> =>
          subscriptions = << "gtk-application-prefer-dark-theme", "gtk-theme-name" >>
    /\ (settingsExists /\ windows # << >>) =>
          /\ loadLog # << >>
          /\ loadLog[1].source = "on_activate"
          /\ loadLog[1].outcome = "ok"
          /\ providers # << >>
    /\ (loadLog # << >> /\ loadLog[1].outcome # "ok") => windows = << >>

\* The first load_css aborted, with both handlers connected.
C10_Witness ==
    /\ pc = "aborted"
    /\ changes = << >>
    /\ Len(loadLog) = 1
    /\ Len(subscriptions) = 2
    /\ windows = << >>

====
